---- MODULE Spec2Model ----
(***************************************************************************)
(* A model of the Architect / Vertex connector: the symbology loader, the  *)
(* order translator (place_order / cancel_order), the account reporter and *)
(* the dispatcher loop of main, with the connections' read tasks, the      *)
(* interval timer and the gRPC server future as the environment.           *)
(*                                                                         *)
(* Strings whose characters the code inspects (exchange order ids, ticker  *)
(* ids, product ids in decimal) are sequences of one-character strings.    *)
(***************************************************************************)
EXTENDS Integers, Sequences, FiniteSets, TLC

\* ---------------------------------------------------------------- bounds

\* Requests the connections' read tasks forward in one run of Spec.
MaxRequests == 2
\* Requests the connections' read tasks forward in one run of SpecOrders.
MaxOrders == 2
\* Times the 3 s interval elapses in one run (after the immediate first tick).
MaxTicks == 1
\* Connections on the bidirectional stream.
NumConns == 2
\* Session messages the queue holds at most in one run of SpecLoad.
MaxQueue == 3
\* Response streams handed out in one run of SpecStreams.
MaxSubs == 2
\* Requests the read tasks forward in one run of SpecStreams.
MaxStreamRequests == 2
\* Account polls started in one run of SpecLag: enough to overrun the buffer.
MaxPolls == 130
\* Polls of an ended inbound stream that one read task makes in one run.
MaxEndPolls == 3

\* ------------------------------------------------- Option / Result values

None == [some |-> FALSE]
Some(v) == [some |-> TRUE, v |-> v]
Err == [ok |-> FALSE]
Ok(v) == [ok |-> TRUE, v |-> v]

\* BTreeMap: a function on its key set; insert replaces the value of a key.
EmptyMap == [k \in {} |-> TRUE]
MapInsert(m, k, v) == [x \in (DOMAIN m) \cup {k} |-> IF x = k THEN v ELSE m[x]]

\* --------------------------------------------------------------- strings

\* str::strip_suffix
StripSuffix(s, suffix) ==
  IF Len(s) >= Len(suffix) /\ SubSeq(s, Len(s) - Len(suffix) + 1, Len(s)) = suffix
  THEN Some(SubSeq(s, 1, Len(s) - Len(suffix)))
  ELSE None

\* str::contains for one character
Contains(s, c) == \E i \in 1..Len(s) : s[i] = c

HexChars == <<"0", "1", "2", "3", "4", "5", "6", "7",
              "8", "9", "a", "b", "c", "d", "e", "f">>
UpperHexChars == <<"0", "1", "2", "3", "4", "5", "6", "7",
                   "8", "9", "A", "B", "C", "D", "E", "F">>

\* hex::encode: two lowercase digits per byte, high nibble first.
RECURSIVE HexEncode(_)
HexEncode(bytes) ==
  IF bytes = <<>> THEN <<>>
  ELSE <<HexChars[(Head(bytes) \div 16) + 1], HexChars[(Head(bytes) % 16) + 1]>>
       \o HexEncode(Tail(bytes))

\* The value of one hex digit (either case), -1 for any other character.
HexVal(c) ==
  IF \E i \in 1..16 : HexChars[i] = c
  THEN (CHOOSE i \in 1..16 : HexChars[i] = c) - 1
  ELSE IF \E i \in 1..16 : UpperHexChars[i] = c
  THEN (CHOOSE i \in 1..16 : UpperHexChars[i] = c) - 1
  ELSE -1

\* hex::decode_to_slice(s, &mut [0u8; n]): odd length, a length other than
\* 2n, or a non-hex character is an error.
DecodeToSlice(s, n) ==
  IF Len(s) % 2 # 0 THEN Err
  ELSE IF Len(s) \div 2 # n THEN Err
  ELSE IF \E i \in 1..Len(s) : HexVal(s[i]) < 0 THEN Err
  ELSE Ok([i \in 1..n |-> HexVal(s[2 * i - 1]) * 16 + HexVal(s[2 * i])])

DecChars == <<"0", "1", "2", "3", "4", "5", "6", "7", "8", "9">>

\* A product id written in hexadecimal.
RECURSIVE U32ToLowerHex(_)
U32ToLowerHex(n) ==
  IF n < 16 THEN <<HexChars[n + 1]>>
  ELSE U32ToLowerHex(n \div 16) \o <<HexChars[(n % 16) + 1]>>

\* u32::to_string
RECURSIVE U32ToString(_)
U32ToString(n) ==
  IF n < 10 THEN <<DecChars[n + 1]>>
  ELSE U32ToString(n \div 10) \o <<DecChars[(n % 10) + 1]>>

RECURSIVE ParseDigits(_, _)
ParseDigits(s, acc) ==
  IF s = <<>> THEN Ok(acc)
  ELSE IF ~ \E i \in 1..10 : DecChars[i] = Head(s) THEN Err
  ELSE ParseDigits(Tail(s), acc * 10 + (CHOOSE i \in 1..10 : DecChars[i] = Head(s)) - 1)

\* The digit of a decimal character.
DigitOf(c) == (CHOOSE i \in 1..10 : DecChars[i] = c) - 1

RECURSIVE StripZeros(_)
StripZeros(s) ==
  IF Len(s) > 1 /\ Head(s) = "0" THEN StripZeros(Tail(s)) ELSE s

\* Two digit strings of one length, compared as numbers.
RECURSIVE DigitsGreater(_, _)
DigitsGreater(s, t) ==
  IF s = <<>> THEN FALSE
  ELSE IF Head(s) # Head(t) THEN DigitOf(Head(s)) > DigitOf(Head(t))
  ELSE DigitsGreater(Tail(s), Tail(t))

\* u32::MAX, 4294967295, in digits.
U32MaxDigits == <<"4", "2", "9", "4", "9", "6", "7", "2", "9", "5">>

\* str::parse::<u32>: an optional '+', then one or more decimal digits whose
\* value is at most u32::MAX.  The model's ids stay below 2^31.
ParseU32(s) ==
  LET body == IF s # <<>> /\ Head(s) = "+" THEN Tail(s) ELSE s
      digits == \A i \in 1..Len(body) : \E d \in 1..10 : DecChars[d] = body[i]
      sig == StripZeros(body)
  IN  IF body = <<>> \/ ~digits THEN Err
      ELSE IF Len(sig) > Len(U32MaxDigits) THEN Err
      ELSE IF Len(sig) = Len(U32MaxDigits) /\ DigitsGreater(sig, U32MaxDigits)
      THEN Err
      ELSE ParseDigits(sig, 0)

\* -------------------------------------------------------------- symbology

\* An i128 the venue reports in 18-digit fixed point: its sign, the bits of
\* its magnitude above the low 96 (hi) and the low 96 bits (lo).
I128(neg, hi, lo) == [neg |-> neg, hi |-> hi, lo |-> lo]

\* Decimal::try_from_i128_with_scale(x, 18): a magnitude that does not fit
\* the 96-bit mantissa is an error.
TryFromI128WithScale(x) ==
  IF x.hi # 0 THEN Err
  ELSE Ok([neg |-> x.neg /\ x.lo # 0, mantissa |-> x.lo, scale |-> 18])

\* A comparison that lets zero through.
IsNotNegative(d) == ~d.neg

\* Decimal > dec!(0)
IsPositive(d) == ~d.neg /\ d.mantissa # 0

\* Product::crypto / Product::perpetual / TradableProduct::new of
\* architect_api: a name holding '/' is refused.
ProductCrypto(symbol) ==
  IF Contains(symbol, "/") THEN Err
  ELSE Ok([symbol |-> symbol, venue |-> "", kind |-> "Crypto"])

ProductPerpetual(symbol, venue) ==
  IF Contains(symbol, "/") THEN Err
  ELSE Ok([symbol |-> symbol, venue |-> venue, kind |-> "Perpetual"])

TradableProductNew(base, quote) == Ok([base |-> base, quote |-> quote])

Venue == "VERTEX"
USDC == <<"U", "S", "D", "C">>
PerpSuffix == <<"-", "P", "E", "R", "P", "_", "U", "S", "D", "C">>
QuoteSuffix == <<"-", "U", "S", "D", "C">>

\* The first loop of load_symbology over all_assets[i..]: st holds products
\* and assets so far; `?` on Product::crypto aborts the load.
RECURSIVE LoadAssets(_, _)
LoadAssets(all_assets, st) ==
  IF all_assets = <<>> THEN Ok(st)
  ELSE
    LET asset == Head(all_assets)
        isSpot == ~asset.market_type.some \/ asset.market_type.v = "spot"
        p == ProductCrypto(asset.symbol)
    IN  IF isSpot /\ ~p.ok THEN Err
        ELSE LoadAssets(Tail(all_assets),
               [products |-> IF isSpot
                             THEN MapInsert(st.products, asset.product_id, p.v)
                             ELSE st.products,
                assets |-> MapInsert(st.assets, asset.product_id, asset)])

\* An ExecutionInfo that records no exchange symbol.
MakeExecutionInfoNoSymbol(product_id, tick_size, step_size, min_size) ==
  [execution_venue |-> Venue,
   exchange_symbol |-> None,
   tick_size |-> tick_size,
   step_size |-> step_size,
   min_order_quantity |-> min_size,
   min_order_quantity_unit |-> "Base",
   is_delisted |-> FALSE]

\* The ExecutionInfo of one perpetual product (lines 103-113).
MakeExecutionInfo(product_id, tick_size, step_size, min_size) ==
  [execution_venue |-> Venue,
   exchange_symbol |-> Some(U32ToString(product_id)),
   tick_size |-> tick_size,
   step_size |-> step_size,
   min_order_quantity |-> min_size,
   min_order_quantity_unit |-> "Base",
   is_delisted |-> FALSE]

\* One iteration of the loop over perp_products: Ok(st') on continue or at
\* the end of the body, Err where `?` returns from load_symbology.
LoadPerpItem(item, assets, usdc, st) ==
  IF item.product_id \notin DOMAIN assets THEN Ok(st)
  ELSE
    LET asset == assets[item.product_id]
        raw == IF asset.ticker_id.some
               THEN StripSuffix(asset.ticker_id.v, PerpSuffix) ELSE None
    IN  IF ~raw.some THEN Ok(st)
        ELSE
          LET base == ProductPerpetual(raw.v \o QuoteSuffix, Venue)
              tp == IF base.ok THEN TradableProductNew(base.v, usdc) ELSE Err
              tick == TryFromI128WithScale(item.book_info.price_increment_x18)
              step == TryFromI128WithScale(item.book_info.size_increment)
              minsz == TryFromI128WithScale(item.book_info.min_size)
              withTp == [st EXCEPT !.tradable_products =
                           MapInsert(@, item.product_id, tp.v)]
          IN  IF ~base.ok \/ ~tp.ok THEN Err
              ELSE IF ~tick.ok \/ ~step.ok \/ ~minsz.ok THEN Ok(withTp)
              ELSE Ok([withTp EXCEPT !.execution_info =
                         MapInsert(@, tp.v,
                           MapInsert(EmptyMap, Venue,
                             MakeExecutionInfo(item.product_id,
                                               tick.v, step.v, minsz.v)))])

RECURSIVE LoadPerps(_, _, _, _)
LoadPerps(perp_products, assets, usdc, st) ==
  IF perp_products = <<>> THEN Ok(st)
  ELSE LET r == LoadPerpItem(Head(perp_products), assets, usdc, st)
       IN  IF ~r.ok THEN Err
           ELSE LoadPerps(Tail(perp_products), assets, usdc, r.v)

\* load_symbology, given the two catalogs the venue returned.
LoadSymbology(all_assets, all_products) ==
  LET usdc == ProductCrypto(USDC)
      a == LoadAssets(all_assets, [products |-> EmptyMap, assets |-> EmptyMap])
      p == IF a.ok
           THEN LoadPerps(all_products.perp_products, a.v.assets, usdc.v,
                          [tradable_products |-> EmptyMap,
                           execution_info |-> EmptyMap])
           ELSE Err
  IN  IF ~usdc.ok \/ ~a.ok \/ ~p.ok THEN Err
      ELSE Ok([products |-> a.v.products,
               tradable_products |-> p.v.tradable_products,
               execution_info |-> p.v.execution_info])

\* ------------------------------------------------------- order translator

\* Decimal::to_f64 on the decimals of the model: "huge" stands for a value
\* with no f64, any other for one that casts.
DecimalToF64(d) == IF d = "huge" THEN None ELSE Some(d)

\* f64_to_x18: the value in 18-digit fixed point.
F64ToX18(f) == [x18 |-> f]

\* [u8; 32]
DigestLen == 32

OrderReject(order_id, reason, message) ==
  [t |-> "OrderReject", order_id |-> order_id, reason |-> reason,
   message |-> message]
OrderAck(order_id, exchange_order_id) ==
  [t |-> "OrderAck", order_id |-> order_id,
   exchange_order_id |-> exchange_order_id]
CancelReject(cancel, message) ==
  [t |-> "CancelReject", cancel_id |-> cancel.cancel_id,
   order_id |-> cancel.order_id, message |-> message]
OrderCanceled(order_id, cancel_id) ==
  [t |-> "OrderCanceled", order_id |-> order_id, cancel_id |-> cancel_id]

\* How a handler goes on: it returns (Ok(()) or an error) having sent the
\* messages of sends, or it awaits a venue call.
ReturnOk(sends) == [t |-> "return", ok |-> TRUE, sends |-> sends]
ReturnErr == [t |-> "return", ok |-> FALSE, sends |-> <<>>]
Call(args) == [t |-> "call", args |-> args]

\* A reject that always gives the reason Unknown.
RejectOrderUnknown(order, reason, message) ==
  ReturnOk(<<OrderReject(order.id, "Unknown", message)>>)

\* A reject that is sent and then returned as an error to the caller.
RejectOrderFails(order, reason, message) ==
  [t |-> "return", ok |-> FALSE,
   sends |-> <<OrderReject(order.id, reason, message)>>]

\* A cancel reject that returns without sending.
RejectCancelSilent(cancel, message) == ReturnOk(<<>>)

\* place_order's rejects: one OrderReject is sent, then `return Ok(())`.
RejectOrder(order, reason, message) ==
  ReturnOk(<<OrderReject(order.id, reason, message)>>)

\* cancel_order's reject! macro: one CancelReject is sent, then `return Ok(())`.
RejectCancel(cancel, message) == ReturnOk(<<CancelReject(cancel, message)>>)

\* A lookup by symbol alone, whatever the venue of the order.
LookupAnyVenue(symbology, order) ==
  IF order.symbol \in DOMAIN symbology.execution_info
  THEN Some(symbology.execution_info[order.symbol][Venue])
  ELSE None

\* .get(&order.symbol).and_then(|i| i.get(&order.execution_venue))
LookupExecutionInfo(symbology, order) ==
  IF order.symbol \in DOMAIN symbology.execution_info
     /\ order.execution_venue \in DOMAIN symbology.execution_info[order.symbol]
  THEN Some(symbology.execution_info[order.symbol][order.execution_venue])
  ELSE None

\* place_order up to the venue call (lines 9-79).
PlaceOrderPre(symbology, order) ==
  LET info == LookupExecutionInfo(symbology, order)
      product_id == IF info.v.exchange_symbol.some
                    THEN ParseU32(info.v.exchange_symbol.v) ELSE Err
      quantity == DecimalToF64(order.quantity)
      price == DecimalToF64(order.order_type.limit_price)
  IN  IF ~info.some
      THEN RejectOrder(order, "Unknown", "no execution info for symbol")
      ELSE IF ~product_id.ok THEN ReturnErr
      ELSE IF ~quantity.some
      THEN RejectOrder(order, "Unknown", "unable to cast quantity")
      ELSE IF order.order_type.kind # "Limit"
      THEN RejectOrder(order, "UnsupportedOrderType", "unsupported order type")
      ELSE IF order.order_type.post_only
      THEN RejectOrder(order, "UnsupportedOrderType",
                       "unsupported post-only flag")
      ELSE IF ~price.some
      THEN RejectOrder(order, "Unknown", "unable to cast price")
      ELSE Call([product_id |-> product_id.v,
                 amount |-> F64ToX18(quantity.v),
                 price_x18 |-> F64ToX18(price.v)])

\* format!("0x{}", hex::encode(res.digest))
FormatExchangeOrderId(digest) == <<"0", "x">> \o HexEncode(digest)

\* A place_order that takes an empty result for a placed order.
PlaceOrderPostAcksEmpty(order, res) ==
  IF ~res.ok
  THEN RejectOrder(order, "Unknown", "unable to place order: venue error")
  ELSE ReturnOk(<<OrderAck(order.id,
                           Some(FormatExchangeOrderId(
                                  IF res.v.some THEN res.v.v.digest
                                  ELSE [i \in 1..DigestLen |-> 0])))>>)

\* place_order after the venue call returned res (lines 82-106): res is
\* Ok(Some(r)), Ok(None) or Err.
PlaceOrderPost(order, res) ==
  IF ~res.ok
  THEN RejectOrder(order, "Unknown", "unable to place order: venue error")
  ELSE IF ~res.v.some
  THEN RejectOrder(order, "Unknown", "unable to place order")
  ELSE ReturnOk(<<OrderAck(order.id,
                           Some(FormatExchangeOrderId(res.v.v.digest)))>>)

\* The marker cancel_order strips from the exchange order id (line 132).
StripMarker(xoid) == StripSuffix(xoid, <<"0", "x">>)

\* cancel_order's decoding of an exchange order id (lines 132-145).
DecodeExchangeOrderId(xoid) ==
  LET digest_s == StripMarker(xoid)
  IN  IF ~digest_s.some THEN Err ELSE DecodeToSlice(digest_s.v, DigestLen)

\* A derivation that ignores the result of the decoding, as
\* `let _ = hex::decode_to_slice(..)` would: the digest stays zeroed.
CancelDigestUnchecked(original_order) ==
  IF ~original_order.exchange_order_id.some
  THEN [ok |-> FALSE, message |-> "no exchange order id"]
  ELSE LET digest == DecodeExchangeOrderId(original_order.exchange_order_id.v)
       IN  Ok(IF digest.ok THEN digest.v ELSE [i \in 1..DigestLen |-> 0])

\* The digest cancel_order derives from the original order, or the message
\* of its reject (lines 131-145).
CancelDigest(original_order) ==
  IF ~original_order.exchange_order_id.some
  THEN [ok |-> FALSE, message |-> "no exchange order id"]
  ELSE LET digest == DecodeExchangeOrderId(original_order.exchange_order_id.v)
       IN  IF ~digest.ok
           THEN [ok |-> FALSE, message |-> "invalid exchange order id"]
           ELSE Ok(digest.v)

\* cancel_order up to the venue call (lines 125-150).
CancelOrderPre(cancel, original_order) ==
  IF ~original_order.some THEN RejectCancel(cancel, "no original order")
  ELSE LET digest == CancelDigest(original_order.v)
       IN  IF ~digest.ok THEN RejectCancel(cancel, digest.message)
           ELSE Call([digests |-> <<digest.v>>, product_ids |-> <<>>])

\* A cancel_order that takes any cancelled order for the one it asked for.
CancelOrderPostAnyMatch(cancel, original_order, digest, res) ==
  IF ~res.ok \/ ~res.v.some THEN RejectCancel(cancel, "unable to cancel order")
  ELSE IF res.v.v.cancelled_orders # <<>>
  THEN ReturnOk(<<OrderCanceled(original_order.id, Some(cancel.cancel_id))>>)
  ELSE RejectCancel(cancel, "order didn't cancel")

\* cancel_order after the venue call returned res (lines 153-168).
CancelOrderPost(cancel, original_order, digest, res) ==
  IF ~res.ok \/ ~res.v.some THEN RejectCancel(cancel, "unable to cancel order")
  ELSE IF \E i \in 1..Len(res.v.v.cancelled_orders) :
            res.v.v.cancelled_orders[i].digest = digest
  THEN ReturnOk(<<OrderCanceled(original_order.id, Some(cancel.cancel_id))>>)
  ELSE RejectCancel(cancel, "order didn't cancel")

\* ------------------------------------------------------- account reporter

\* The loop over spot_balances (lines 19-41): unknown product ids and
\* unconvertible amounts are skipped, only positive quantities are kept.
RECURSIVE SpotBalances(_, _, _)
SpotBalances(symbology, items, balances) ==
  IF items = <<>> THEN balances
  ELSE
    LET item == Head(items)
        quantity == TryFromI128WithScale(item.balance.amount)
    IN  SpotBalances(symbology, Tail(items),
          IF item.product_id \notin DOMAIN symbology.products THEN balances
          ELSE IF ~quantity.ok THEN balances
          ELSE IF IsPositive(quantity.v)
          THEN MapInsert(balances, symbology.products[item.product_id],
                         quantity.v)
          ELSE balances)

\* The loop over perp_balances (lines 42-68).
RECURSIVE PerpPositions(_, _, _)
PerpPositions(symbology, items, positions) ==
  IF items = <<>> THEN positions
  ELSE
    LET item == Head(items)
        quantity == TryFromI128WithScale(item.balance.amount)
    IN  PerpPositions(symbology, Tail(items),
          IF item.product_id \notin DOMAIN symbology.tradable_products
          THEN positions
          ELSE IF ~quantity.ok THEN positions
          ELSE IF IsPositive(quantity.v)
          THEN MapInsert(positions,
                         symbology.tradable_products[item.product_id],
                         <<[quantity |-> quantity.v]>>)
          ELSE positions)

\* The CptyResponse::UpdateAccountSummary built from subaccount_info
\* (lines 17-79); the wall-clock timestamp is left out.
AccountSummary(symbology, subaccount_info) ==
  [t |-> "UpdateAccountSummary",
   balances |-> Some(SpotBalances(symbology, subaccount_info.spot_balances,
                                  EmptyMap)),
   positions |-> Some(PerpPositions(symbology, subaccount_info.perp_balances,
                                    EmptyMap)),
   statistics |-> None,
   is_snapshot |-> TRUE]

\* ------------------------------------------------------------ the inputs

Asset(product_id, symbol, market_type, ticker_id) ==
  [product_id |-> product_id, symbol |-> symbol, market_type |-> market_type,
   ticker_id |-> ticker_id]
PerpProduct(product_id, price_increment_x18, size_increment, min_size) ==
  [product_id |-> product_id,
   book_info |-> [price_increment_x18 |-> price_increment_x18,
                  size_increment |-> size_increment, min_size |-> min_size]]

BTC == <<"B", "T", "C">>
SOL == <<"S", "O", "L">>
ETH == <<"E", "T", "H">>

\* Catalogs the venue may return at startup.  CatalogA mixes a good perpetual
\* (2) with one whose ticker has another quote (4), one whose tick size does
\* not fit a Decimal (6), one without ticker (8), one without asset (10), an
\* untagged asset (1) and one with an unrecognised tag (3).  CatalogBad holds
\* a spot asset no Product can be built from.
CatalogA ==
  [assets |-> <<Asset(0, USDC, Some("spot"), None),
                Asset(1, <<"W">> \o BTC, None, None),
                Asset(2, BTC \o <<"-", "P", "E", "R", "P">>, Some("perp"),
                      Some(BTC \o PerpSuffix)),
                Asset(3, <<"X">>, Some("future"), None),
                Asset(4, ETH \o <<"-", "P", "E", "R", "P">>, Some("perp"),
                      Some(ETH \o <<"-", "P", "E", "R", "P", "_", "U", "S", "D", "T">>)),
                Asset(6, SOL \o <<"-", "P", "E", "R", "P">>, Some("perp"),
                      Some(SOL \o PerpSuffix)),
                Asset(8, <<"A", "R", "B">>, Some("perp"), None)>>,
   products |-> [perp_products |->
     <<PerpProduct(2, I128(FALSE, 0, 100), I128(FALSE, 0, 1), I128(FALSE, 0, 10)),
       PerpProduct(4, I128(FALSE, 0, 100), I128(FALSE, 0, 1), I128(FALSE, 0, 10)),
       PerpProduct(6, I128(FALSE, 1, 0), I128(FALSE, 0, 1), I128(FALSE, 0, 10)),
       PerpProduct(8, I128(FALSE, 0, 100), I128(FALSE, 0, 1), I128(FALSE, 0, 10)),
       PerpProduct(10, I128(FALSE, 0, 100), I128(FALSE, 0, 1), I128(FALSE, 0, 10))>>]]

CatalogBad ==
  [assets |-> <<Asset(0, USDC, Some("spot"), None),
                Asset(5, <<"A", "/", "B">>, Some("spot"), None)>>,
   products |-> [perp_products |-> <<>>]]

Catalogs == {CatalogA, CatalogBad}

\* The TradableProduct an order names.
PerpSymbol(raw) ==
  [base |-> [symbol |-> raw \o QuoteSuffix, venue |-> Venue, kind |-> "Perpetual"],
   quote |-> [symbol |-> USDC, venue |-> "", kind |-> "Crypto"]]

\* Digests the venue assigns: every byte 0xab, and bytes 9, 18, 27, ...
D1 == [i \in 1..DigestLen |-> 171]
D2 == [i \in 1..DigestLen |-> (i * 9) % 256]
Digests == {D1, D2}

Limit(limit_price, post_only) ==
  [kind |-> "Limit", limit_price |-> limit_price, post_only |-> post_only]
Market == [kind |-> "Market"]

Order(id, symbol, execution_venue, quantity, order_type, exchange_order_id) ==
  [id |-> id, symbol |-> symbol, execution_venue |-> execution_venue,
   quantity |-> quantity, order_type |-> order_type,
   exchange_order_id |-> exchange_order_id]

\* (symbol, venue) pairs of orders: listed on the venue, listed on another
\* venue only, and a product without ExecutionInfo.
SymbolVenues == {<<PerpSymbol(BTC), Venue>>, <<PerpSymbol(BTC), "OTHER">>,
                 <<PerpSymbol(SOL), Venue>>}
Quantities == {"1.5", "huge"}
OrderTypes == {Limit("20000.25", FALSE), Limit("huge", FALSE),
               Limit("20000.25", TRUE), Market}

\* Exchange order ids an original order may carry: the two shapes built from
\* a digest (marker in front, as the ack formats it, and marker behind), hex
\* of the wrong length behind the marker, and text without marker.
ExchangeOrderIds ==
  {FormatExchangeOrderId(d) : d \in Digests}
  \cup {HexEncode(D1) \o <<"0", "x">>,
        <<"z", "z", "0", "x">>,
        <<"n", "o", "p", "e">>}

\* The orders a connection may place as its id-th request.
PlaceRequests(id) ==
  {[tag |-> "PlaceOrder",
    order |-> Order(id, sv[1], sv[2], q, ty, None)] :
     sv \in SymbolVenues, q \in Quantities, ty \in OrderTypes}

\* The cancels a connection may send as its id-th request, of the order
\* before it: without original order, and with one carrying no exchange
\* order id or one of ExchangeOrderIds.
CancelRequests(id) ==
  {[tag |-> "CancelOrder",
    cancel |-> [cancel_id |-> id, order_id |-> id - 1],
    original_order |-> oo] :
     oo \in {None}
        \cup {Some(Order(id - 1, PerpSymbol(BTC), Venue, "1.5",
                         Limit("20000.25", FALSE), x)) :
                x \in {None} \cup {Some(e) : e \in ExchangeOrderIds}}}

\* Every request of the model, as the id-th request of a run.
AnyRequest(id) ==
  PlaceRequests(id) \cup CancelRequests(id)
  \cup {[tag |-> "Login"], [tag |-> "Logout"]}

\* The requests of the runs with timer and server: an order the venue is
\* asked to place, one the translator rejects, a cancel of an order carrying
\* the id an ack gave it, one carrying the marker behind the hex, and a
\* session message.
GoodOrder(id) ==
  Order(id, PerpSymbol(BTC), Venue, "1.5", Limit("20000.25", FALSE), None)
Cancel(id, original_order) ==
  [tag |-> "CancelOrder", cancel |-> [cancel_id |-> id, order_id |-> id - 1],
   original_order |-> original_order]
SomeRequest(id) ==
  {[tag |-> "PlaceOrder", order |-> GoodOrder(id)],
   [tag |-> "PlaceOrder",
    order |-> [GoodOrder(id) EXCEPT !.execution_venue = "OTHER"]],
   Cancel(id, Some([GoodOrder(id - 1) EXCEPT
                      !.exchange_order_id = Some(FormatExchangeOrderId(D1))])),
   Cancel(id, Some([GoodOrder(id - 1) EXCEPT
                      !.exchange_order_id = Some(HexEncode(D1) \o <<"0", "x">>)])),
   [tag |-> "Login"]}

\* What the venue may answer.
PlaceResults == {Ok(Some([digest |-> d])) : d \in Digests} \cup {Ok(None), Err}

OtherDigest(d) == IF d = D1 THEN D2 ELSE D1
CancelResults(digest) ==
  {Ok(Some([cancelled_orders |-> l])) :
     l \in {<<>>, <<[digest |-> digest]>>, <<[digest |-> OtherDigest(digest)]>>,
            <<[digest |-> OtherDigest(digest)], [digest |-> digest]>>}}
  \cup {Ok(None), Err}

Balance(product_id, amount) ==
  [product_id |-> product_id, balance |-> [amount |-> amount]]
\* What get_subaccount_info may answer: an error, or balances that are
\* positive, zero, negative, of an unknown product id and too large for a
\* Decimal.
SubaccountInfo ==
  [spot_balances |-> <<Balance(0, I128(FALSE, 0, 5)), Balance(1, I128(FALSE, 0, 0)),
                       Balance(99, I128(FALSE, 0, 7)), Balance(1, I128(FALSE, 1, 0))>>,
   perp_balances |-> <<Balance(2, I128(TRUE, 0, 3)), Balance(6, I128(FALSE, 0, 2)),
                       Balance(4, I128(FALSE, 0, 1))>>]
AccountResults == {Ok(SubaccountInfo), Err}

\* -------------------------------------------------------------- the state

VARIABLES
  read_tasks,        \* per connection: its inbound stream ("open", "closed",
                     \* "error") and the polls of its read task that found it ended
  catalog,           \* history: the assets and products the venue returned at startup
  vertex_symbology,  \* VertexService.vertex_symbology, built once by main
  pc,                \* where main is: "load" (awaiting the catalogs), "select",
                     \* "call" (awaiting the venue), "stopped"
  exit,              \* "running", or why main returned
  cur,               \* the handler main awaits: its request, its venue call
  cpty_req_rx,       \* the unbounded mpsc queue of CptyRequests
  n_enq,             \* requests forwarded so far
  tick_due,          \* poll_account_interval has a tick ready
  n_ticks,           \* periods elapsed so far
  server_fut,        \* "serving", "ok" / "err" (completed), "taken" (result consumed)
  venue_inflight,    \* venue calls started and not yet returned
  orderflow_tx,      \* messages sent on the orderflow broadcast channel
  cpty_res_tx,       \* messages sent on the cpty response broadcast channel
  handled,           \* history: the requests recv() yielded, in order
  venue_calls,       \* history: the order and cancel calls made, with their results
  polls,             \* history: account polls started, those that failed,
                     \* and the last subaccount_info the venue answered
  last_select,       \* history: what was ready at the last select, and the branch run
  subs               \* the response streams handed out, in the order they were made

vars == <<read_tasks, catalog, vertex_symbology, pc, exit, cur, cpty_req_rx, n_enq, tick_due, n_ticks,
          server_fut, venue_inflight, orderflow_tx, cpty_res_tx, handled,
          venue_calls, polls, last_select, subs>>

Conns == 1..NumConns

NoSymbology ==
  [products |-> EmptyMap, tradable_products |-> EmptyMap,
   execution_info |-> EmptyMap]
NoRequest == [tag |-> "None"]
\* Every connection's inbound stream is open and was never found ended.
NoReadTasks == [c \in Conns |-> [in_stream |-> "open", end_polls |-> 0]]
Idle == [msg |-> NoRequest, kind |-> "none", args |-> <<>>]

\* main up to the loop (lines 150-175): a failed load returns before the
\* server or the loop exist; the interval's first tick is ready at once.
Init ==
  \E c \in Catalogs :
    LET loaded == LoadSymbology(c.assets, c.products)
    IN  /\ catalog = c
        /\ read_tasks = NoReadTasks
        /\ vertex_symbology = (IF loaded.ok THEN loaded.v ELSE NoSymbology)
        /\ pc = (IF loaded.ok THEN "select" ELSE "stopped")
        /\ exit = (IF loaded.ok THEN "running" ELSE "load_symbology")
        /\ cur = Idle
        /\ cpty_req_rx = <<>>
        /\ n_enq = 0
        /\ tick_due = TRUE
        /\ n_ticks = 0
        /\ server_fut = "serving"
        /\ venue_inflight = {}
        /\ orderflow_tx = <<>>
        /\ cpty_res_tx = <<>>
        /\ handled = <<>>
        /\ venue_calls = <<>>
        /\ polls = [started |-> 0, failed |-> 0, answer |-> None]
        /\ last_select = [request_ready |-> FALSE, server_ready |-> FALSE,
                          tick_ready |-> FALSE, branch |-> "none"]
        /\ subs = <<>>

\* ------------------------------------------------------- the environment

\* Connection c's read task got one of msgs and forwards it (lines 62-66).
ReadTaskForward(c, msgs) ==
  /\ pc # "stopped"
  /\ read_tasks[c].in_stream = "open"
  /\ \E msg \in msgs : cpty_req_rx' = Append(cpty_req_rx, msg)
  /\ n_enq' = n_enq + 1
  /\ UNCHANGED <<read_tasks, catalog, vertex_symbology, subs, pc, exit, cur, tick_due, n_ticks, server_fut,
                 venue_inflight, orderflow_tx, cpty_res_tx, handled, venue_calls,
                 polls, last_select>>

\* A period of the interval elapses; MissedTickBehavior::Skip keeps at most
\* one tick ready (lines 174-175).
IntervalElapses ==
  /\ pc # "stopped"
  /\ n_ticks < MaxTicks
  /\ n_ticks' = n_ticks + 1
  /\ tick_due' = TRUE
  /\ UNCHANGED <<read_tasks, catalog, vertex_symbology, subs, pc, exit, cur, cpty_req_rx, n_enq, server_fut,
                 venue_inflight, orderflow_tx, cpty_res_tx, handled, venue_calls,
                 polls, last_select>>

\* The gRPC server future completes, with Ok or with an error (lines 168-171).
ServerCompletes ==
  /\ pc # "stopped"
  /\ server_fut = "serving"
  /\ server_fut' \in {"ok", "err"}
  /\ UNCHANGED <<read_tasks, catalog, vertex_symbology, subs, pc, exit, cur, cpty_req_rx, n_enq, tick_due,
                 n_ticks, venue_inflight, orderflow_tx, cpty_res_tx, handled,
                 venue_calls, polls, last_select>>

\* ------------------------------------------------- the broadcast channels

\* broadcast::channel(100)
Capacity == 100

RECURSIVE PowerOfTwoFrom(_, _)
PowerOfTwoFrom(p, n) == IF p >= n THEN p ELSE PowerOfTwoFrom(2 * p, n)

\* The slots of the channel's ring buffer: tokio rounds the capacity asked
\* for up to the next power of two.
BufferLen == PowerOfTwoFrom(1, Capacity)

\* A send that waits for the slowest receiver to make room.
SendReadyWhenRoom(kind, channel, receivers) ==
  \A i \in 1..Len(receivers) :
    (receivers[i].kind = kind /\ receivers[i].status = "open") =>
      Len(channel) - receivers[i].next < Capacity

\* `let _ = tx.send(msg)`: broadcast::Sender::send is not async; it stores
\* the message, overwriting the oldest slot if the buffer is full, and
\* returns, whatever the receivers (an Err for no receiver is dropped).
SendReady(kind, channel, receivers) == TRUE

\* A receive that skips what was overwritten and yields the oldest message
\* still held.
BroadcastRecvSkipping(channel, next) ==
  IF next = Len(channel) THEN [t |-> "pending"]
  ELSE IF Len(channel) - next > BufferLen
  THEN [t |-> "item", msg |-> channel[Len(channel) - BufferLen + 1],
        pos |-> Len(channel) - BufferLen + 1]
  ELSE [t |-> "item", msg |-> channel[next + 1], pos |-> next + 1]

\* broadcast::Receiver::recv for a receiver that has taken or skipped the
\* first `next` messages of all those sent on the channel: nothing new yet,
\* Lagged(missed) if the next message was overwritten, else that message.
BroadcastRecv(channel, next) ==
  IF next = Len(channel) THEN [t |-> "pending"]
  ELSE IF Len(channel) - next > BufferLen
  THEN [t |-> "lagged", missed |-> Len(channel) - BufferLen - next]
  ELSE [t |-> "item", msg |-> channel[next + 1], pos |-> next + 1]

\* map_broadcast_stream_err: Lagged(_) becomes Status::data_loss("lagged").
MapBroadcastStreamErr(e) == "data_loss"

\* ------------------------------------------------------ the dispatcher loop

\* A loop that selects again while a handler is still awaited.
AtSelectOrCall == pc # "stopped"

\* main is at the select_biased! of its loop: every handler is awaited to
\* its end before the loop comes back here (lines 177-191).
AtSelect == pc = "select"

\* A select that polls the timer before the queue and the server.
SelectBranchTimerFirst(request_ready, server_ready, tick_ready) ==
  IF tick_ready THEN "tick"
  ELSE IF request_ready THEN "request"
  ELSE IF server_ready THEN "server"
  ELSE "pending"

\* select_biased! polls its branches in the order written and runs the
\* first that is ready (lines 178-189).
SelectBranch(request_ready, server_ready, tick_ready) ==
  IF request_ready THEN "request"
  ELSE IF server_ready THEN "server"
  ELSE IF tick_ready THEN "tick"
  ELSE "pending"

RequestReady == cpty_req_rx # <<>>
ServerReady == server_fut \in {"ok", "err"}
Selected == SelectBranch(RequestReady, ServerReady, tick_due)
Select ==
  [request_ready |-> RequestReady, server_ready |-> ServerReady,
   tick_ready |-> tick_due, branch |-> Selected]

\* UnboundedReceiver::recv on a non-empty queue: the oldest message.
Recv(queue) == [msg |-> Head(queue), rest |-> Tail(queue)]

\* A loop that drops the handlers' results instead of applying `?`.
TryIgnore(ok, why) == [pc |-> "select", exit |-> "running"]

\* The `?` of main on a handler's result: Ok goes round the loop, an error
\* returns from main (lines 181, 185, 188).
Try(ok, why) ==
  IF ok THEN [pc |-> "select", exit |-> "running"]
  ELSE [pc |-> "stopped", exit |-> why]

RequestId(msg) ==
  IF msg.tag = "PlaceOrder" THEN msg.order.id
  ELSE IF msg.tag = "CancelOrder" THEN msg.cancel.cancel_id
  ELSE 0

\* What handle_cpty_request does with msg before any await (lines 200-208).
HandlePre(msg) ==
  IF msg.tag = "PlaceOrder" THEN PlaceOrderPre(vertex_symbology, msg.order)
  ELSE IF msg.tag = "CancelOrder"
  THEN CancelOrderPre(msg.cancel, msg.original_order)
  ELSE ReturnOk(<<>>)

VenueCall(kind, id, args, res) ==
  [kind |-> kind, id |-> id, args |-> args, res |-> res]
InFlight(kind, id) == [kind |-> kind, id |-> id]

\* The last venue call, completed with the result res.
CallReturned(res) ==
  [venue_calls EXCEPT ![Len(venue_calls)].res = Some(res)]

\* The request branch: recv() yields the head of the queue and
\* handle_cpty_request runs up to its venue call, if it makes one.
DispatchRequest ==
  /\ AtSelect
  /\ Selected = "request"
  /\ last_select' = Select
  /\ LET msg == Recv(cpty_req_rx).msg
         step == HandlePre(msg)
         kind == IF msg.tag = "PlaceOrder" THEN "place_order" ELSE "cancellation"
     IN  /\ cpty_req_rx' = Recv(cpty_req_rx).rest
         /\ handled' = Append(handled, msg)
         /\ \/ /\ step.t = "return"
               /\ SendReady("orderflow", orderflow_tx, subs)
               /\ orderflow_tx' = orderflow_tx \o step.sends
               /\ pc' = Try(step.ok, "handle_cpty_request").pc
               /\ exit' = Try(step.ok, "handle_cpty_request").exit
               /\ UNCHANGED <<cur, venue_inflight, venue_calls>>
            \/ /\ step.t = "call"
               /\ pc' = "call"
               /\ cur' = [msg |-> msg, kind |-> kind, args |-> step.args]
               /\ venue_inflight' =
                    venue_inflight \cup {InFlight(kind, RequestId(msg))}
               /\ venue_calls' =
                    Append(venue_calls,
                           VenueCall(kind, RequestId(msg), step.args, None))
               /\ UNCHANGED <<exit, orderflow_tx>>
  /\ UNCHANGED <<read_tasks, catalog, vertex_symbology, subs, n_enq, tick_due, n_ticks, server_fut,
                 cpty_res_tx, polls>>

\* The venue answers the order-placement call; place_order emits its ack or
\* reject and returns (lines 82-106), and main goes on (line 181).
PlaceOrderReturns ==
  /\ pc = "call"
  /\ cur.kind = "place_order"
  /\ SendReady("orderflow", orderflow_tx, subs)
  /\ \E res \in PlaceResults :
       LET step == PlaceOrderPost(cur.msg.order, res)
       IN  /\ orderflow_tx' = orderflow_tx \o step.sends
           /\ pc' = Try(step.ok, "handle_cpty_request").pc
           /\ exit' = Try(step.ok, "handle_cpty_request").exit
           /\ venue_calls' = CallReturned(res)
  /\ venue_inflight' =
       venue_inflight \ {InFlight("place_order", cur.msg.order.id)}
  /\ cur' = Idle
  /\ UNCHANGED <<read_tasks, catalog, vertex_symbology, subs, cpty_req_rx, n_enq, tick_due, n_ticks,
                 server_fut, cpty_res_tx, handled, polls, last_select>>

\* The venue answers the cancellation call; cancel_order emits OrderCanceled
\* or CancelReject and returns (lines 153-168), and main goes on (line 181).
CancelOrderReturns ==
  /\ pc = "call"
  /\ cur.kind = "cancellation"
  /\ SendReady("orderflow", orderflow_tx, subs)
  /\ \E res \in CancelResults(cur.args.digests[1]) :
       LET step == CancelOrderPost(cur.msg.cancel, cur.msg.original_order.v,
                                   cur.args.digests[1], res)
       IN  /\ orderflow_tx' = orderflow_tx \o step.sends
           /\ pc' = Try(step.ok, "handle_cpty_request").pc
           /\ exit' = Try(step.ok, "handle_cpty_request").exit
           /\ venue_calls' = CallReturned(res)
  /\ venue_inflight' =
       venue_inflight \ {InFlight("cancellation", cur.msg.cancel.cancel_id)}
  /\ cur' = Idle
  /\ UNCHANGED <<read_tasks, catalog, vertex_symbology, subs, cpty_req_rx, n_enq, tick_due, n_ticks,
                 server_fut, cpty_res_tx, handled, polls, last_select>>

\* The server branch: the completed future's result is taken; an error
\* returns from main with context "grpc server" (lines 184-186).
DispatchServer ==
  /\ AtSelect
  /\ Selected = "server"
  /\ last_select' = Select
  /\ pc' = Try(server_fut = "ok", "grpc server").pc
  /\ exit' = Try(server_fut = "ok", "grpc server").exit
  /\ server_fut' = "taken"
  /\ UNCHANGED <<read_tasks, catalog, vertex_symbology, subs, cur, cpty_req_rx, n_enq, tick_due, n_ticks,
                 venue_inflight, orderflow_tx, cpty_res_tx, handled, venue_calls,
                 polls>>

\* The loop polls the server future again after it completed with Ok: the
\* poll of a finished future may panic (the other outcome, a poll that
\* stays pending, leaves the timer branch to DispatchTick).
DispatchServerRepoll ==
  /\ AtSelect
  /\ ~RequestReady
  /\ server_fut = "taken"
  /\ pc' = "stopped"
  /\ exit' = "panic"
  /\ UNCHANGED <<read_tasks, catalog, vertex_symbology, subs, cur, cpty_req_rx, n_enq, tick_due, n_ticks,
                 server_fut, venue_inflight, orderflow_tx, cpty_res_tx, handled,
                 venue_calls, polls, last_select>>

\* The timer branch: update_account_summary starts; client.subaccount() may
\* fail at once, else get_subaccount_info is awaited (positions.rs 13-16).
DispatchTick ==
  /\ AtSelect
  /\ Selected = "tick"
  /\ last_select' = Select
  /\ tick_due' = FALSE
  /\ \/ /\ pc' = Try(FALSE, "update_account_summary").pc
        /\ exit' = Try(FALSE, "update_account_summary").exit
        /\ polls' = [polls EXCEPT !.started = @ + 1, !.failed = @ + 1]
        /\ UNCHANGED <<cur, venue_inflight>>
     \/ /\ pc' = "call"
        /\ cur' = [msg |-> NoRequest, kind |-> "get_subaccount_info",
                   args |-> <<>>]
        /\ venue_inflight' =
             venue_inflight \cup {InFlight("get_subaccount_info", 0)}
        /\ polls' = [polls EXCEPT !.started = @ + 1]
        /\ UNCHANGED exit
  /\ UNCHANGED <<read_tasks, catalog, vertex_symbology, subs, cpty_req_rx, n_enq, n_ticks, server_fut,
                 orderflow_tx, cpty_res_tx, handled, venue_calls>>

\* get_subaccount_info answers: an error returns from main, a result is
\* turned into one UpdateAccountSummary (positions.rs 15-80, main.rs 188).
AccountSummaryAnswers(results) ==
  /\ pc = "call"
  /\ cur.kind = "get_subaccount_info"
  /\ venue_inflight' = venue_inflight \ {InFlight("get_subaccount_info", 0)}
  /\ cur' = Idle
  /\ \E res \in results :
       /\ pc' = Try(res.ok, "update_account_summary").pc
       /\ exit' = Try(res.ok, "update_account_summary").exit
       /\ IF res.ok
          THEN /\ SendReady("cpty", cpty_res_tx, subs)
               /\ cpty_res_tx' =
                    Append(cpty_res_tx, AccountSummary(vertex_symbology, res.v))
               /\ polls' = [polls EXCEPT !.answer = Some(res.v)]
          ELSE /\ polls' = [polls EXCEPT !.failed = @ + 1]
               /\ UNCHANGED cpty_res_tx
  /\ UNCHANGED <<read_tasks, catalog, vertex_symbology, subs, cpty_req_rx, n_enq, tick_due, n_ticks,
                 server_fut, orderflow_tx, handled, venue_calls, last_select>>

AccountSummaryReturns == AccountSummaryAnswers(AccountResults)

\* The requests of Spec and of SpecOrders.
ConnSends(c) ==
  /\ n_enq < MaxRequests
  /\ ReadTaskForward(c, SomeRequest(n_enq + 1))

ConnSendsAny(c) ==
  /\ n_enq < MaxOrders
  /\ ReadTaskForward(c, AnyRequest(n_enq + 1))

Next ==
  \/ \E c \in Conns : ConnSends(c)
  \/ IntervalElapses
  \/ ServerCompletes
  \/ DispatchRequest
  \/ PlaceOrderReturns
  \/ CancelOrderReturns
  \/ DispatchServer
  \/ DispatchServerRepoll
  \/ DispatchTick
  \/ AccountSummaryReturns

\* The connector with its timer and server, on the requests of SomeRequest.
Spec == Init /\ [][Next]_vars

\* The translator on every request of the model: the runs in which no 3 s
\* period elapses and the server keeps serving.
NextOrders ==
  \/ \E c \in Conns : ConnSendsAny(c)
  \/ DispatchRequest
  \/ PlaceOrderReturns
  \/ CancelOrderReturns
  \/ DispatchTick
  \/ AccountSummaryReturns

SpecOrders == Init /\ [][NextOrders]_vars

\* --------------------------------------------------- the response streams

\* CptyResponse::Symbology { execution_info } (lines 73-75)
SymbologySnapshot ==
  [t |-> "Symbology", execution_info |-> vertex_symbology.execution_info]

\* A stream whose receiver starts at the first message its channel ever
\* carried.
StreamFromStart(kind, head, next) ==
  [kind |-> kind, head |-> head, next |-> 0, out |-> <<>>,
   status |-> "open",
   connected |-> [orderflow |-> Len(orderflow_tx), cpty |-> Len(cpty_res_tx)]]

\* A response stream: the items of its head still to be yielded, then the
\* messages of a broadcast receiver that has taken or skipped `next` of its
\* channel's messages.  out holds what the stream has yielded, each message
\* with its position on the channel (0 for an item of the head); status is
\* "open" or the Status that ended the stream.  connected is history: how
\* many messages each channel had carried when the stream was made.
Stream(kind, head, next) ==
  [kind |-> kind, head |-> head, next |-> next, out |-> <<>>,
   status |-> "open",
   connected |-> [orderflow |-> Len(orderflow_tx), cpty |-> Len(cpty_res_tx)]]

\* The broadcast channel a stream of this kind relays.
Channel(kind) == IF kind = "cpty" THEN cpty_res_tx ELSE orderflow_tx

\* Cpty::cpty (lines 73-80): the snapshot, chained with a receiver of
\* cpty_res_tx subscribed now.
CptyConnects ==
  /\ pc # "stopped"
  /\ Len(subs) < MaxSubs
  /\ subs' = Append(subs, Stream("cpty", <<SymbologySnapshot>>,
                                 Len(cpty_res_tx)))
  /\ UNCHANGED <<read_tasks, catalog, vertex_symbology, pc, exit, cur, cpty_req_rx, n_enq, tick_due,
                 n_ticks, server_fut, venue_inflight, orderflow_tx, cpty_res_tx,
                 handled, venue_calls, polls, last_select>>

\* Orderflow::subscribe_orderflow (lines 115-117): a receiver of
\* orderflow_tx subscribed now.
OrderflowSubscribes ==
  /\ pc # "stopped"
  /\ Len(subs) < MaxSubs
  /\ subs' = Append(subs, Stream("orderflow", <<>>, Len(orderflow_tx)))
  /\ UNCHANGED <<read_tasks, catalog, vertex_symbology, pc, exit, cur, cpty_req_rx, n_enq, tick_due,
                 n_ticks, server_fut, venue_inflight, orderflow_tx, cpty_res_tx,
                 handled, venue_calls, polls, last_select>>

\* The transport polls stream i and gets an item: the next of its head,
\* else what its receiver yields; a Lagged error goes through
\* map_broadcast_stream_err and ends the stream with that Status.
StreamPoll(i) ==
  /\ pc # "stopped"
  /\ subs[i].status = "open"
  /\ IF subs[i].head # <<>>
     THEN subs' = [subs EXCEPT
                     ![i].out = Append(@, [msg |-> Head(subs[i].head), pos |-> 0]),
                     ![i].head = Tail(@)]
     ELSE LET r == BroadcastRecv(Channel(subs[i].kind), subs[i].next)
          IN  /\ r.t # "pending"
              /\ subs' = IF r.t = "item"
                         THEN [subs EXCEPT
                                 ![i].out = Append(@, [msg |-> r.msg, pos |-> r.pos]),
                                 ![i].next = r.pos]
                         ELSE [subs EXCEPT
                                 ![i].status = MapBroadcastStreamErr(r),
                                 ![i].next = @ + r.missed]
  /\ UNCHANGED <<read_tasks, catalog, vertex_symbology, pc, exit, cur, cpty_req_rx, n_enq, tick_due,
                 n_ticks, server_fut, venue_inflight, orderflow_tx, cpty_res_tx,
                 handled, venue_calls, polls, last_select>>

\* The requests of SpecStreams: an order the venue is asked to place and a
\* cancel the venue is asked for.
StreamRequests(id) ==
  {[tag |-> "PlaceOrder", order |-> GoodOrder(id)],
   Cancel(id, Some([GoodOrder(id - 1) EXCEPT
                      !.exchange_order_id = Some(HexEncode(D1) \o <<"0", "x">>)]))}

ConnSendsFew(c) ==
  /\ n_enq < MaxStreamRequests
  /\ ReadTaskForward(c, StreamRequests(n_enq + 1))

NextStreams ==
  \/ CptyConnects
  \/ OrderflowSubscribes
  \/ \E i \in 1..Len(subs) : StreamPoll(i)
  \/ \E c \in Conns : ConnSendsFew(c)
  \/ DispatchRequest
  \/ PlaceOrderReturns
  \/ CancelOrderReturns
  \/ DispatchTick
  \/ AccountSummaryReturns

\* The connector with the response streams of its clients: the runs in
\* which no 3 s period elapses and the server keeps serving.
SpecStreams == Init /\ [][NextStreams]_vars

NextSnapshots ==
  \/ CptyConnects
  \/ \E i \in 1..Len(subs) : StreamPoll(i)
  \/ IntervalElapses
  \/ DispatchTick
  \/ AccountSummaryReturns

\* The account reporter with the clients of the bidirectional endpoint,
\* which connect at any time: the runs without requests.
SpecSnapshots == Init /\ [][NextSnapshots]_vars

\* The stream of a run of SpecLag is made, before the first account poll
\* has sent its summary.
FirstCptyConnects ==
  /\ subs = <<>>
  /\ cpty_res_tx = <<>>
  /\ CptyConnects

\* A period of the interval elapses after the tick before it was taken
\* (lines 174-175), in a run of SpecLag.
IntervalKeepsElapsing ==
  /\ pc # "stopped"
  /\ ~tick_due
  /\ polls.started < MaxPolls
  /\ n_ticks' = n_ticks + 1
  /\ tick_due' = TRUE
  /\ UNCHANGED <<read_tasks, catalog, vertex_symbology, subs, pc, exit, cur, cpty_req_rx, n_enq,
                 server_fut, venue_inflight, orderflow_tx, cpty_res_tx, handled,
                 venue_calls, polls, last_select>>

NextLag ==
  \/ FirstCptyConnects
  \/ \E i \in 1..Len(subs) : StreamPoll(i)
  \/ IntervalKeepsElapsing
  \/ DispatchTick
  \/ AccountSummaryReturns

\* The connector polling the account for long enough to fill the buffer of
\* cpty_res_tx, with one client connected from the start and reading at its
\* own pace.
SpecLag == Init /\ [][NextLag]_vars

\* --------------------------------------------------- the loop under load

\* The session messages, which handle_cpty_request answers with nothing
\* (lines 201-202).
SessionRequests == {[tag |-> "Login"], [tag |-> "Logout"]}

\* A read task forwards a session message (lines 62-66).  The runs of
\* SpecLoad go on for ever, so they keep no count of the requests forwarded.
ConnSendsSession(c) ==
  /\ pc # "stopped"
  /\ Len(cpty_req_rx) < MaxQueue
  /\ \E msg \in SessionRequests : cpty_req_rx' = Append(cpty_req_rx, msg)
  /\ UNCHANGED <<read_tasks, catalog, vertex_symbology, subs, pc, exit, cur, n_enq, tick_due, n_ticks,
                 server_fut, venue_inflight, orderflow_tx, cpty_res_tx, handled,
                 venue_calls, polls, last_select>>

\* The request branch on a session message: recv() yields it and
\* handle_cpty_request returns Ok(()) at once (lines 179-183, 200-210).  The
\* runs of SpecLoad keep no history of the requests handled.
DispatchSession ==
  /\ AtSelect
  /\ Selected = "request"
  /\ Recv(cpty_req_rx).msg \in SessionRequests
  /\ HandlePre(Recv(cpty_req_rx).msg) = ReturnOk(<<>>)
  /\ cpty_req_rx' = Recv(cpty_req_rx).rest
  /\ pc' = Try(TRUE, "handle_cpty_request").pc
  /\ exit' = Try(TRUE, "handle_cpty_request").exit
  /\ UNCHANGED <<read_tasks, catalog, vertex_symbology, subs, cur, n_enq, tick_due, n_ticks, server_fut,
                 venue_inflight, orderflow_tx, cpty_res_tx, handled, venue_calls,
                 polls, last_select>>

NextLoad ==
  \/ \E c \in Conns : ConnSendsSession(c)
  \/ DispatchSession
  \/ IntervalElapses
  \/ DispatchTick
  \/ AccountSummaryReturns

\* The loop with clients that keep sending: main is scheduled whenever it
\* can take a step, the venue answers every poll, and the timer branch runs
\* if a select finds it the first ready branch again and again.
SpecLoad ==
  /\ Init
  /\ [][NextLoad]_vars
  /\ WF_vars(DispatchSession)
  /\ SF_vars(DispatchTick)
  /\ WF_vars(AccountSummaryReturns)

\* ------------------------------------------------- the account reporter

\* Raw balances the venue may report: a positive, a zero and a negative
\* amount, an amount of a product id the catalog does not hold, and an amount
\* too large for a Decimal.
SpotCases ==
  {Balance(0, I128(FALSE, 0, 5)), Balance(1, I128(FALSE, 0, 7)),
   Balance(1, I128(FALSE, 0, 0)), Balance(1, I128(TRUE, 0, 3)),
   Balance(99, I128(FALSE, 0, 7)), Balance(1, I128(FALSE, 1, 0))}
PerpCases ==
  {Balance(2, I128(FALSE, 0, 4)), Balance(6, I128(FALSE, 0, 2)),
   Balance(2, I128(FALSE, 0, 0)), Balance(2, I128(TRUE, 0, 3)),
   Balance(98, I128(FALSE, 0, 4)), Balance(2, I128(TRUE, 1, 0))}
SubaccountInfos ==
  {[spot_balances |-> <<a, b>>, perp_balances |-> <<p>>] :
     a \in SpotCases, b \in SpotCases, p \in PerpCases}

AccountSummaryReturnsAny ==
  AccountSummaryAnswers({Ok(info) : info \in SubaccountInfos} \cup {Err})

\* The timer branch alone, with every answer of get_subaccount_info.
NextAccounts ==
  \/ IntervalElapses
  \/ DispatchTick
  \/ AccountSummaryReturnsAny

SpecAccounts == Init /\ [][NextAccounts]_vars

\* ------------------------------------------------------------- startup

\* Catalogs of two assets after USDC and of two perpetual products.  An asset
\* is untagged or tagged spot, perp or something else, its symbol and its
\* ticker may hold a '/', its ticker may be missing or quoted in another
\* asset; a product's three sizes may each be too large for a Decimal.
BadName == <<"A", "/", "B">>
SymbolOf(product_id) == IF product_id = 1 THEN BTC ELSE ETH
AssetCases(product_id) ==
  LET sym == SymbolOf(product_id)
      perp == sym \o <<"-", "P", "E", "R", "P">>
  IN  {Asset(product_id, sym, None, None),
       Asset(product_id, sym, Some("spot"), None),
       Asset(product_id, sym, Some("future"), None),
       Asset(product_id, BadName, Some("spot"), None),
       Asset(product_id, BadName, Some("future"), None),
       Asset(product_id, perp, Some("perp"), Some(sym \o PerpSuffix)),
       Asset(product_id, perp, Some("perp"), Some(BadName \o PerpSuffix)),
       Asset(product_id, perp, Some("perp"), None),
       Asset(product_id, perp, Some("perp"),
             Some(sym \o <<"-", "P", "E", "R", "P", "_", "U", "S", "D", "T">>))}
PerpProductCases(product_id) ==
  LET fits == I128(FALSE, 0, 10)
      large == I128(FALSE, 1, 0)
  IN  {PerpProduct(product_id, fits, fits, fits),
       PerpProduct(product_id, large, fits, fits),
       PerpProduct(product_id, fits, large, fits),
       PerpProduct(product_id, fits, fits, large)}
AllCatalogs ==
  {[assets |-> <<Asset(0, USDC, Some("spot"), None), a, b>>,
    products |-> [perp_products |-> <<p, q>>]] :
     a \in AssetCases(1), b \in AssetCases(2),
     p \in PerpProductCases(1), q \in PerpProductCases(2)}

\* main before load_symbology returned (lines 150-154).
AwaitingCatalogs(c) ==
  /\ catalog = c
  /\ read_tasks = NoReadTasks
  /\ vertex_symbology = NoSymbology
  /\ pc = "load"
  /\ exit = "running"
  /\ cur = Idle
  /\ cpty_req_rx = <<>>
  /\ n_enq = 0
  /\ tick_due = FALSE
  /\ n_ticks = 0
  /\ server_fut = "serving"
  /\ venue_inflight = {}
  /\ orderflow_tx = <<>>
  /\ cpty_res_tx = <<>>
  /\ handled = <<>>
  /\ venue_calls = <<>>
  /\ polls = [started |-> 0, failed |-> 0, answer |-> None]
  /\ last_select = [request_ready |-> FALSE, server_ready |-> FALSE,
                    tick_ready |-> FALSE, branch |-> "none"]
  /\ subs = <<>>

InitCatalogs == \E c \in AllCatalogs : AwaitingCatalogs(c)

\* load_symbology returns: its error returns from main, its symbology is
\* kept and the interval's first tick is ready at once (lines 154-175).
LoadSymbologyReturns ==
  /\ pc = "load"
  /\ LET loaded == LoadSymbology(catalog.assets, catalog.products)
     IN  /\ vertex_symbology' = (IF loaded.ok THEN loaded.v ELSE NoSymbology)
         /\ pc' = (IF loaded.ok THEN "select" ELSE "stopped")
         /\ exit' = (IF loaded.ok THEN "running" ELSE "load_symbology")
  /\ tick_due' = TRUE
  /\ UNCHANGED <<read_tasks, catalog, cur, cpty_req_rx, n_enq, n_ticks, server_fut,
                 venue_inflight, orderflow_tx, cpty_res_tx, handled,
                 venue_calls, polls, last_select, subs>>

NextCatalogs == LoadSymbologyReturns

SpecCatalogs == InitCatalogs /\ [][NextCatalogs]_vars

\* ------------------------------------------- orders on loaded products

\* Catalogs of two perpetual products with product ids of one to ten digits.
ProductIds == {2, 10, 108, 2147483647}
PerpAsset(product_id, raw) ==
  Asset(product_id, raw \o <<"-", "P", "E", "R", "P">>, Some("perp"),
        Some(raw \o PerpSuffix))
ListedCatalogs ==
  {[assets |-> <<Asset(0, USDC, Some("spot"), None),
                 PerpAsset(p, BTC), PerpAsset(q, ETH)>>,
    products |-> [perp_products |->
      <<PerpProduct(p, I128(FALSE, 0, 100), I128(FALSE, 0, 1), I128(FALSE, 0, 10)),
        PerpProduct(q, I128(FALSE, 0, 100), I128(FALSE, 0, 1), I128(FALSE, 0, 10))>>]] :
     p \in ProductIds, q \in ProductIds}

InitListed == \E c \in ListedCatalogs : AwaitingCatalogs(c)

\* Orders on the two products, and one on a venue they are not listed on.
ListedRequests(id) ==
  {[tag |-> "PlaceOrder",
    order |-> Order(id, sv[1], sv[2], "1.5", Limit("20000.25", FALSE), None)] :
     sv \in {<<PerpSymbol(BTC), Venue>>, <<PerpSymbol(ETH), Venue>>,
             <<PerpSymbol(ETH), "OTHER">>}}

\* Connections exist once the server does, after the load (lines 154-172).
ConnSendsListed(c) ==
  /\ pc # "load"
  /\ n_enq < MaxOrders
  /\ ReadTaskForward(c, ListedRequests(n_enq + 1))

NextListed ==
  \/ LoadSymbologyReturns
  \/ \E c \in Conns : ConnSendsListed(c)
  \/ DispatchRequest
  \/ PlaceOrderReturns

SpecListed == InitListed /\ [][NextListed]_vars

\* ------------------------------------------------------ the read tasks

\* The client of connection c closes its request stream, or the stream
\* breaks: in_stream.message() yields Ok(None), or Err, from now on.
InStreamEnds(c) ==
  /\ pc # "stopped"
  /\ read_tasks[c].in_stream = "open"
  /\ \E how \in {"closed", "error"} :
       read_tasks' = [read_tasks EXCEPT ![c].in_stream = how]
  /\ UNCHANGED <<catalog, vertex_symbology, subs, pc, exit, cur, cpty_req_rx,
                 n_enq, tick_due, n_ticks, server_fut, venue_inflight,
                 orderflow_tx, cpty_res_tx, handled, venue_calls, polls,
                 last_select>>

\* One turn of the read task's loop on an ended stream (lines 61-70): the
\* arms Ok(None) and Err(e) log and fall out of the match, and the loop
\* polls again.
ReadTaskFindsEnd(c) ==
  /\ pc # "stopped"
  /\ read_tasks[c].in_stream # "open"
  /\ read_tasks[c].end_polls < MaxEndPolls
  /\ read_tasks' = [read_tasks EXCEPT ![c].end_polls = @ + 1]
  /\ UNCHANGED <<catalog, vertex_symbology, subs, pc, exit, cur, cpty_req_rx,
                 n_enq, tick_due, n_ticks, server_fut, venue_inflight,
                 orderflow_tx, cpty_res_tx, handled, venue_calls, polls,
                 last_select>>

\* One turn of the loop on an open stream: a session message is forwarded.
ReadTaskForwardsSession(c) ==
  /\ n_enq < MaxRequests
  /\ ReadTaskForward(c, SessionRequests)

NextReadTasks ==
  \/ \E c \in Conns : ReadTaskForwardsSession(c)
  \/ \E c \in Conns : InStreamEnds(c)
  \/ \E c \in Conns : ReadTaskFindsEnd(c)
  \/ DispatchSession

SpecReadTasks == Init /\ [][NextReadTasks]_vars

\* ---------------------------------------------------------- properties

Last(seq) == seq[Len(seq)]

\* The messages of orderflow_tx that answer the order / the cancel with id.
AboutOrder(m, id) == m.t \in {"OrderAck", "OrderReject"} /\ m.order_id = id
AboutCancel(m, id) ==
  \/ m.t = "CancelReject" /\ m.cancel_id = id
  \/ m.t = "OrderCanceled" /\ m.cancel_id = Some(id)
OrderResponses(id) ==
  {j \in 1..Len(orderflow_tx) : AboutOrder(orderflow_tx[j], id)}
CancelResponses(id) ==
  {j \in 1..Len(orderflow_tx) : AboutCancel(orderflow_tx[j], id)}

\* The i-th request recv() yielded is the one whose venue call main awaits.
Awaited(i) == pc = "call" /\ cur.msg = handled[i]

PlaceCalls(id) ==
  {k \in 1..Len(venue_calls) :
     venue_calls[k].kind = "place_order" /\ venue_calls[k].id = id}
CancelCalls(id) ==
  {k \in 1..Len(venue_calls) :
     venue_calls[k].kind = "cancellation" /\ venue_calls[k].id = id}

\* The snapshot holds no ExecutionInfo for the order's (symbol, venue).
NoExecutionInfo(order) ==
  ~ \E tp \in DOMAIN vertex_symbology.execution_info :
      /\ tp = order.symbol
      /\ \E v \in DOMAIN vertex_symbology.execution_info[tp] :
           v = order.execution_venue

\* C1: the exchange order id of every OrderAck decodes, the way cancel_order
\* decodes it, to the digest the venue returned for that order, and every
\* cancel handled to its end whose original order carries that id has made
\* the venue cancellation call with exactly that digest.
C1_AckedIdDecodesAndCancels ==
  \A k \in 1..Len(venue_calls) :
    LET call == venue_calls[k]
    IN  (call.kind = "place_order" /\ call.res.some /\ call.res.v.ok
         /\ call.res.v.v.some) =>
          LET digest == call.res.v.v.v.digest
          IN  \A j \in OrderResponses(call.id) :
                orderflow_tx[j].t = "OrderAck" =>
                  /\ DecodeExchangeOrderId(orderflow_tx[j].exchange_order_id.v)
                       = Ok(digest)
                  /\ \A i \in 1..Len(handled) :
                       (/\ handled[i].tag = "CancelOrder"
                        /\ handled[i].original_order.some
                        /\ handled[i].original_order.v.exchange_order_id
                             = orderflow_tx[j].exchange_order_id
                        /\ CancelResponses(handled[i].cancel.cancel_id) # {})
                       => \E c \in CancelCalls(handled[i].cancel.cancel_id) :
                            venue_calls[c].args.digests = <<digest>>

\* C2: every PlaceOrder request handled has exactly one response carrying
\* its order id, an OrderAck or an OrderReject, once place_order returned
\* (and none while its venue call is awaited).
C2_ExactlyOnePlaceResponse ==
  \A i \in 1..Len(handled) :
    handled[i].tag = "PlaceOrder" =>
      Cardinality(OrderResponses(handled[i].order.id))
        = (IF Awaited(i) THEN 0 ELSE 1)

\* Two orders were handled, one acked and one the venue declined.
C2_Witness ==
  /\ \E j \in 1..Len(orderflow_tx) : orderflow_tx[j].t = "OrderAck"
  /\ \E j \in 1..Len(orderflow_tx) :
       /\ orderflow_tx[j].t = "OrderReject"
       /\ orderflow_tx[j].message = "unable to place order"

\* C3: every CancelOrder request handled has exactly one response, an
\* OrderCanceled or a CancelReject, once cancel_order returned (and none
\* while its venue call is awaited).
C3_ExactlyOneCancelResponse ==
  \A i \in 1..Len(handled) :
    handled[i].tag = "CancelOrder" =>
      Cardinality(CancelResponses(handled[i].cancel.cancel_id))
        = (IF Awaited(i) THEN 0 ELSE 1)

\* Two cancels were handled, one cancelled and one rejected.
C3_Witness ==
  /\ \E j \in 1..Len(orderflow_tx) : orderflow_tx[j].t = "OrderCanceled"
  /\ \E j \in 1..Len(orderflow_tx) : orderflow_tx[j].t = "CancelReject"

\* C4: an order whose (symbol, venue) has no ExecutionInfo in the snapshot
\* gets exactly one response, an OrderReject with reason Unknown, and no
\* order-placement call is made for it.
C4_UnknownSymbolRejected ==
  \A i \in 1..Len(handled) :
    (handled[i].tag = "PlaceOrder" /\ NoExecutionInfo(handled[i].order)) =>
      /\ Cardinality(OrderResponses(handled[i].order.id)) = 1
      /\ \A j \in OrderResponses(handled[i].order.id) :
           /\ orderflow_tx[j].t = "OrderReject"
           /\ orderflow_tx[j].reason = "Unknown"
      /\ PlaceCalls(handled[i].order.id) = {}

\* Orders on a product without ExecutionInfo and on a venue the product is
\* not listed on were both handled.
C4_Witness ==
  /\ Len(handled) = 2
  /\ handled[1].tag = "PlaceOrder" /\ handled[2].tag = "PlaceOrder"
  /\ handled[1].order.symbol = PerpSymbol(SOL)
  /\ handled[2].order.execution_venue = "OTHER"
  /\ Len(orderflow_tx) = 2

Unsupported(order) ==
  order.order_type.kind # "Limit" \/ order.order_type.post_only

RejectedAsUnsupported(order) ==
  /\ Cardinality(OrderResponses(order.id)) = 1
  /\ \A j \in OrderResponses(order.id) :
       /\ orderflow_tx[j].t = "OrderReject"
       /\ orderflow_tx[j].reason = "UnsupportedOrderType"
  /\ PlaceCalls(order.id) = {}

\* C5 as stated: every non-limit or post-only order, whatever its symbol,
\* venue and quantity, gets exactly one OrderReject with reason
\* UnsupportedOrderType, and no order-placement call is made for it.
C5_Original ==
  \A i \in 1..Len(handled) :
    (handled[i].tag = "PlaceOrder" /\ Unsupported(handled[i].order)) =>
      RejectedAsUnsupported(handled[i].order)

\* C5 as amended: every non-limit or post-only order whose (symbol, venue)
\* has an ExecutionInfo in the snapshot and whose quantity casts to f64 gets
\* exactly one OrderReject with reason UnsupportedOrderType, and no
\* order-placement call is made for it.
C5_UnsupportedTypeRejected ==
  \A i \in 1..Len(handled) :
    (/\ handled[i].tag = "PlaceOrder"
     /\ Unsupported(handled[i].order)
     /\ ~NoExecutionInfo(handled[i].order)
     /\ handled[i].order.quantity # "huge") =>
      RejectedAsUnsupported(handled[i].order)

\* A market order and a post-only limit order on the listed product were
\* both handled.
C5_Witness ==
  /\ Len(handled) = 2
  /\ handled[1].tag = "PlaceOrder" /\ handled[2].tag = "PlaceOrder"
  /\ ~NoExecutionInfo(handled[1].order) /\ ~NoExecutionInfo(handled[2].order)
  /\ handled[1].order.quantity = "1.5" /\ handled[2].order.quantity = "1.5"
  /\ handled[1].order.order_type = Market
  /\ handled[2].order.order_type = Limit("20000.25", TRUE)
  /\ Len(orderflow_tx) = 2

\* The reject a cancel must get before any venue call, "" if none.
EarlyCancelReject(msg) ==
  IF ~msg.original_order.some THEN "no original order"
  ELSE IF ~msg.original_order.v.exchange_order_id.some
  THEN "no exchange order id"
  ELSE IF ~DecodeExchangeOrderId(msg.original_order.v.exchange_order_id.v).ok
  THEN "invalid exchange order id"
  ELSE ""

\* C6: a cancel whose original order is missing, carries no exchange order
\* id, or carries one that cancel_order's decoding fails on, gets the
\* CancelReject with the message of its case, and no cancellation call is
\* made for it.
C6_UndecodableCancelRejected ==
  \A i \in 1..Len(handled) :
    (handled[i].tag = "CancelOrder" /\ EarlyCancelReject(handled[i]) # "") =>
      /\ \E j \in 1..Len(orderflow_tx) :
           orderflow_tx[j]
             = CancelReject(handled[i].cancel, EarlyCancelReject(handled[i]))
      /\ CancelCalls(handled[i].cancel.cancel_id) = {}

\* A cancel whose id has the marker but no 32 bytes of hex, and one without
\* original order, were both handled.
C6_Witness ==
  /\ Len(handled) = 2
  /\ handled[1].tag = "CancelOrder" /\ handled[2].tag = "CancelOrder"
  /\ EarlyCancelReject(handled[1]) = "invalid exchange order id"
  /\ StripMarker(handled[1].original_order.v.exchange_order_id.v).some
  /\ EarlyCancelReject(handled[2]) = "no original order"
  /\ Len(orderflow_tx) = 2

IsReject(m) == m.t \in {"OrderReject", "CancelReject"}

\* This step sent an OrderReject or a CancelReject.
RejectSent ==
  /\ Len(orderflow_tx') = Len(orderflow_tx) + 1
  /\ IsReject(Last(orderflow_tx'))

\* This step is one of main, not of its environment.
MainSteps ==
  \/ pc' # pc
  \/ exit' # exit
  \/ handled' # handled
  \/ server_fut # "taken" /\ server_fut' = "taken"

\* C7: a step that answers a request with an OrderReject or a CancelReject
\* leaves main in its loop, running, with the queue as it was but for the
\* request taken; and whenever a reject has been sent, main is back at its
\* select and running, and a request is queued, the next step main takes
\* dequeues and handles that request.
C7_RejectsKeepLoopRunning ==
  /\ [][RejectSent =>
          /\ pc' = "select"
          /\ exit' = "running"
          /\ \/ cpty_req_rx' = cpty_req_rx
             \/ cpty_req_rx # <<>> /\ cpty_req_rx' = Tail(cpty_req_rx)]_vars
  /\ [][(/\ \E j \in 1..Len(orderflow_tx) : IsReject(orderflow_tx[j])
          /\ pc = "select" /\ exit = "running" /\ cpty_req_rx # <<>>
          /\ MainSteps)
         => handled' = Append(handled, Head(cpty_req_rx))]_vars

\* The venue declined the first order, and the request enqueued after it
\* was handled and answered too.
C7_Witness ==
  /\ Len(handled) = 2
  /\ Len(orderflow_tx) = 2
  /\ orderflow_tx[1].t = "OrderReject"
  /\ orderflow_tx[1].message = "unable to place order"
  /\ orderflow_tx[1].order_id = RequestId(handled[1])
  /\ AboutCancel(orderflow_tx[2], RequestId(handled[2]))
  /\ pc = "select" /\ exit = "running"

PollAwaited == pc = "call" /\ cur.kind = "get_subaccount_info"

\* C8: once an account poll has failed, main has returned with the error of
\* update_account_summary; the failed poll has sent no AccountSummary (the
\* summaries sent are the polls that ended without error); and from then on
\* no request is dequeued, no venue call is made and no message is sent.
C8_PollFailureStopsLoop ==
  /\ [](Len(cpty_res_tx)
          = polls.started - polls.failed - (IF PollAwaited THEN 1 ELSE 0))
  /\ [](polls.failed > 0 =>
          /\ pc = "stopped"
          /\ exit = "update_account_summary"
          /\ venue_inflight = {})
  /\ [][polls.failed > 0 =>
          UNCHANGED <<handled, venue_calls, venue_inflight, orderflow_tx,
                      cpty_res_tx, cpty_req_rx, polls, pc, exit>>]_vars

\* The second poll failed after the first had sent its summary, with a
\* request still in the queue.
C8_Witness ==
  /\ polls.started = 2
  /\ polls.failed = 1
  /\ Len(cpty_res_tx) = 1
  /\ cpty_req_rx # <<>>
  /\ pc = "stopped"

\* The ids of the order and cancel requests of seq, in order.
RECURSIVE Ids(_)
Ids(seq) ==
  IF seq = <<>> THEN <<>>
  ELSE IF RequestId(Head(seq)) = 0 THEN Ids(Tail(seq))
  ELSE <<RequestId(Head(seq))>> \o Ids(Tail(seq))

\* C9: at most one venue call is in flight, and only while main awaits the
\* handler that made it; the requests are dequeued in the order they were
\* enqueued (their ids number the enqueues), each only after every earlier
\* one has been answered; and every order or cancel call was made for a
\* request main dequeued.
C9_OneRequestAtATime ==
  /\ Cardinality(venue_inflight) <= 1
  /\ venue_inflight # {} =>
       /\ pc = "call"
       /\ venue_inflight = {InFlight(cur.kind, RequestId(cur.msg))}
  /\ LET ids == Ids(handled \o cpty_req_rx)
     IN  \A i, j \in 1..Len(ids) : i < j => ids[i] < ids[j]
  /\ \A i \in 1..Len(handled) :
       (i < Len(handled) /\ RequestId(handled[i]) # 0) =>
         OrderResponses(RequestId(handled[i]))
           \cup CancelResponses(RequestId(handled[i])) # {}
  /\ \A k \in 1..Len(venue_calls) :
       /\ \E i \in 1..Len(handled) :
            /\ RequestId(handled[i]) = venue_calls[k].id
            /\ handled[i].tag = (IF venue_calls[k].kind = "place_order"
                                 THEN "PlaceOrder" ELSE "CancelOrder")
       /\ k < Len(venue_calls) => venue_calls[k].res.some

\* The second request's venue call is in flight and the first one's has
\* returned, while a poll has been made, the server has completed and a
\* tick is ready.
C9_Witness ==
  /\ Len(venue_calls) = 2
  /\ venue_calls[1].res.some
  /\ venue_inflight = {InFlight("cancellation", 2)}
  /\ polls.started = 1
  /\ ServerReady
  /\ tick_due

TookRequest == handled' # handled
TookServer == server_fut # "taken" /\ server_fut' = "taken"
TookTick == polls'.started # polls.started

\* C10: main takes a branch only at its select; it dequeues a request only
\* when one is ready (and then the head of the queue); it takes the
\* server's result only when no request is ready; and it starts an account
\* poll only when neither a request nor the server's completion is ready.
C10_SelectPriority ==
  [][/\ (TookRequest \/ TookServer \/ TookTick) => pc = "select"
     /\ TookRequest =>
          /\ RequestReady
          /\ handled' = Append(handled, Head(cpty_req_rx))
          /\ ~TookServer /\ ~TookTick
     /\ TookServer => ServerReady /\ ~RequestReady /\ ~TookTick
     /\ TookTick => tick_due /\ ~RequestReady /\ ~ServerReady]_vars

\* All three branches were ready at a select, and the request was taken.
C10_Witness ==
  last_select = [request_ready |-> TRUE, server_ready |-> TRUE,
                 tick_ready |-> TRUE, branch |-> "request"]

\* C11: a timer tick that has become due while main runs is eventually
\* handled (an account poll starts, or main returns), also in the runs in
\* which requests keep arriving.
C11_DueTickEventuallyHandled ==
  (tick_due /\ exit = "running") ~> (~tick_due \/ exit # "running")

\* Stream s has yielded everything it holds or can receive so far.
CaughtUp(s) ==
  s.status = "open" /\ s.head = <<>> /\ s.next = Len(Channel(s.kind))

Yielded(s, m) == \E j \in 1..Len(s.out) : s.out[j].msg = m

\* C12: every response sent on either broadcast channel after a stream was
\* made has been yielded by that stream, of whichever kind, once the stream
\* has nothing left to yield and has not lagged.
C12_EveryResponseReachesEveryStream ==
  \A i \in 1..Len(subs) :
    CaughtUp(subs[i]) =>
      /\ \A k \in (subs[i].connected.orderflow + 1)..Len(orderflow_tx) :
           Yielded(subs[i], orderflow_tx[k])
      /\ \A k \in (subs[i].connected.cpty + 1)..Len(cpty_res_tx) :
           Yielded(subs[i], cpty_res_tx[k])

\* Stream i is polled in this step.
Polled(i) == i <= Len(subs) /\ subs'[i] # subs[i]

\* How many messages of its channel the receiver of stream s has not taken.
Behind(s) == Len(Channel(s.kind)) - s.next

\* The messages stream s has yielded are those of its channel from the one
\* after its subscription on, none left out.
GapFree(s) ==
  \A j \in 1..Len(s.out) :
    s.out[j].pos # 0 =>
      /\ s.out[j].pos = s.connected[s.kind] + j - (IF s.kind = "cpty" THEN 1 ELSE 0)
      /\ s.out[j].msg = Channel(s.kind)[s.out[j].pos]

\* A handler that is about to send is never held up.
NeverBlocked ==
  /\ (pc = "call" /\ cur.kind = "get_subaccount_info") =>
       ENABLED (AccountSummaryReturns /\ cpty_res_tx' # cpty_res_tx)
  /\ (pc = "call" /\ cur.kind = "place_order") => ENABLED PlaceOrderReturns
  /\ (pc = "call" /\ cur.kind = "cancellation") => ENABLED CancelOrderReturns

\* C13 as stated: a send never blocks, and a stream polled when its
\* receiver is more than 100 messages behind ends with the data-loss status.
C13_Original ==
  /\ []NeverBlocked
  /\ [][\A i \in 1..Len(subs) :
          (Polled(i) /\ subs[i].head = <<>> /\ Behind(subs[i]) > Capacity)
          => subs'[i].status = "data_loss"]_vars

\* C13 as amended: a send never blocks, whatever the streams (none, or one
\* far behind); a stream polled when its receiver is more behind than the
\* buffer holds (128 slots for the capacity of 100) yields nothing more and
\* ends with the data-loss status; polled when it is at most that far
\* behind it yields the next message; so what a stream has yielded never
\* has a gap, and a data-loss status marks messages lost.
C13_LagIsSignalled ==
  /\ []NeverBlocked
  /\ [](\A i \in 1..Len(subs) :
          /\ GapFree(subs[i])
          /\ subs[i].status # "open" =>
               /\ subs[i].status = "data_loss"
               /\ subs[i].next > subs[i].connected[subs[i].kind]
                                   + Len(subs[i].out) - 1)
  /\ [][\A i \in 1..Len(subs) :
          (Polled(i) /\ subs[i].head = <<>>) =>
            IF Behind(subs[i]) > BufferLen
            THEN /\ subs'[i].status = "data_loss"
                 /\ subs'[i].out = subs[i].out
            ELSE /\ subs'[i].status = "open"
                 /\ Len(subs'[i].out) = Len(subs[i].out) + 1
                 /\ subs'[i].next = subs[i].next + 1]_vars

\* A stream that had yielded the snapshot and the first summary was
\* overrun, by one message, and ended with the data-loss status.
C13_Witness ==
  /\ Len(subs) = 1
  /\ subs[1].status = "data_loss"
  /\ Len(subs[1].out) = 2
  /\ subs[1].next = 2
  /\ Len(cpty_res_tx) = BufferLen + 2

\* C14: the first item a stream of the bidirectional endpoint yields is the
\* symbology snapshot, and no later item is one; the later items are the
\* messages sent on cpty_res_tx after the stream was made, in the order
\* they were sent, starting with the first of them.
C14_SnapshotThenRelay ==
  \A i \in 1..Len(subs) :
    LET s == subs[i]
    IN  s.kind = "cpty" =>
          /\ s.out = <<>> <=> s.head # <<>>
          /\ \A j \in 1..Len(s.out) :
               IF j = 1
               THEN s.out[j].msg = SymbologySnapshot
               ELSE /\ s.out[j].msg.t # "Symbology"
                    /\ s.out[j].pos = s.connected.cpty + j - 1
                    /\ s.out[j].msg = cpty_res_tx[s.out[j].pos]

\* A connection made after the first account summary was sent has yielded
\* the snapshot and the second summary.
C14_Witness ==
  \E i \in 1..Len(subs) :
    /\ subs[i].kind = "cpty"
    /\ subs[i].connected.cpty = 1
    /\ Len(subs[i].out) = 2
    /\ Len(cpty_res_tx) = 2

\* C15: every account summary sent holds only strictly positive quantities,
\* in its balances and in its positions, whatever the venue reported (zero,
\* negative and positive amounts, unknown product ids, amounts no Decimal
\* holds), and is marked as a full snapshot.
StrictlyPositive(q) == ~q.neg /\ q.mantissa > 0
C15_SummariesHoldPositiveQuantities ==
  \A i \in 1..Len(cpty_res_tx) :
    LET m == cpty_res_tx[i]
    IN  m.t = "UpdateAccountSummary" =>
          /\ m.is_snapshot
          /\ m.balances.some
          /\ m.positions.some
          /\ \A k \in DOMAIN m.balances.v : StrictlyPositive(m.balances.v[k])
          /\ \A k \in DOMAIN m.positions.v :
               \A j \in 1..Len(m.positions.v[k]) :
                 StrictlyPositive(m.positions.v[k][j].quantity)

\* The venue reported a zero spot amount next to a positive one and a negative
\* perpetual amount; the summary sent holds the positive balance alone.
C15_Witness ==
  /\ polls.answer
       = Some([spot_balances |-> <<Balance(1, I128(FALSE, 0, 0)),
                                   Balance(0, I128(FALSE, 0, 5))>>,
               perp_balances |-> <<Balance(2, I128(TRUE, 0, 3))>>])
  /\ cpty_res_tx # <<>>
  /\ Cardinality(DOMAIN Last(cpty_res_tx).balances.v) = 1
  /\ DOMAIN Last(cpty_res_tx).positions.v = {}

\* C16: once both catalogs were fetched, load_symbology does not fail: a bad
\* asset or product only leaves its own entry out.
C16_LoadNeverFails == pc # "load" => exit # "load_symbology"

\* C17: a perpetual product of which the tick size, the step size or the
\* minimum size does not convert is in neither table of the catalog, so that
\* every id of the TradableProduct table has an ExecutionInfo.
Unconvertible(item) ==
  \/ ~TryFromI128WithScale(item.book_info.price_increment_x18).ok
  \/ ~TryFromI128WithScale(item.book_info.size_increment).ok
  \/ ~TryFromI128WithScale(item.book_info.min_size).ok
C17_ExcludedFromWholeCatalog ==
  /\ \A i \in 1..Len(catalog.products.perp_products) :
       LET item == catalog.products.perp_products[i]
       IN  Unconvertible(item) =>
             item.product_id \notin DOMAIN vertex_symbology.tradable_products
  /\ \A id \in DOMAIN vertex_symbology.tradable_products :
       vertex_symbology.tradable_products[id]
         \in DOMAIN vertex_symbology.execution_info

\* C18: of a loaded catalog, every asset whose market-type tag is absent or
\* is not a recognised one is in the product table as a spot product, and
\* only the assets tagged perp are left out of it.
C18_UnrecognisedTagIsSpot ==
  (pc # "load" /\ exit # "load_symbology") =>
    \A i \in 1..Len(catalog.assets) :
      LET asset == catalog.assets[i]
      IN  asset.product_id \in DOMAIN vertex_symbology.products
            <=> asset.market_type # Some("perp")

\* C19: the order-placement call is made at most once for a PlaceOrder
\* request, and only for an order that passed the lookup, the product id, the
\* quantity, the order type and the price checks; the order is acked exactly
\* when that call returned a concrete result, and an empty result or an error
\* of the call is answered by an OrderReject with reason Unknown, with no
\* second call.
PassesChecks(order) ==
  /\ ~NoExecutionInfo(order)
  /\ LET info == vertex_symbology.execution_info[order.symbol]
                   [order.execution_venue]
     IN  info.exchange_symbol.some /\ ParseU32(info.exchange_symbol.v).ok
  /\ order.quantity # "huge"
  /\ order.order_type.kind = "Limit"
  /\ ~order.order_type.post_only
  /\ order.order_type.limit_price # "huge"
Concrete(res) == res.some /\ res.v.ok /\ res.v.v.some
Acked(id) ==
  \E j \in 1..Len(orderflow_tx) :
    orderflow_tx[j].t = "OrderAck" /\ orderflow_tx[j].order_id = id
C19_OneCallAckIffConcrete ==
  \A i \in 1..Len(handled) :
    handled[i].tag = "PlaceOrder" =>
      LET order == handled[i].order
      IN  /\ Cardinality(PlaceCalls(order.id)) <= 1
          /\ PlaceCalls(order.id) # {} => PassesChecks(order)
          /\ Acked(order.id)
               <=> \E k \in PlaceCalls(order.id) : Concrete(venue_calls[k].res)
          /\ \A k \in PlaceCalls(order.id) :
               (venue_calls[k].res.some /\ ~Concrete(venue_calls[k].res)) =>
                 \E j \in 1..Len(orderflow_tx) :
                   /\ orderflow_tx[j].t = "OrderReject"
                   /\ orderflow_tx[j].order_id = order.id
                   /\ orderflow_tx[j].reason = "Unknown"

\* Two orders reached the venue: the call of one failed, the call of the other
\* returned a digest; a reject and an ack were sent.
C19_Witness ==
  /\ Len(venue_calls) = 2
  /\ venue_calls[1].kind = "place_order" /\ venue_calls[1].res = Some(Err)
  /\ venue_calls[2].kind = "place_order" /\ Concrete(venue_calls[2].res)
  /\ Len(orderflow_tx) = 2
  /\ orderflow_tx[1].t = "OrderReject" /\ orderflow_tx[2].t = "OrderAck"

\* C20: once the cancellation call of a cancel returned, OrderCanceled was
\* sent exactly when the result is concrete and its cancelled orders hold the
\* digest decoded from the original order's exchange order id; a concrete
\* result without that digest is answered by CancelReject "order didn't
\* cancel", an empty result or an error by CancelReject "unable to cancel
\* order".
Cancelled(res, digest) ==
  /\ Concrete(res)
  /\ \E n \in 1..Len(res.v.v.v.cancelled_orders) :
       res.v.v.v.cancelled_orders[n].digest = digest
CancelAnswer(id) == {orderflow_tx[j] : j \in CancelResponses(id)}
C20_CancelledIffDigestListed ==
  \A i \in 1..Len(handled) :
    handled[i].tag = "CancelOrder" =>
      \A k \in CancelCalls(handled[i].cancel.cancel_id) :
        LET cancel == handled[i].cancel
            res == venue_calls[k].res
            digest ==
              DecodeExchangeOrderId(
                handled[i].original_order.v.exchange_order_id.v).v
        IN  /\ venue_calls[k].args.digests = <<digest>>
            /\ res.some =>
                 CancelAnswer(cancel.cancel_id)
                   = {IF Cancelled(res, digest)
                      THEN OrderCanceled(handled[i].original_order.v.id,
                                         Some(cancel.cancel_id))
                      ELSE IF Concrete(res)
                      THEN CancelReject(cancel, "order didn't cancel")
                      ELSE CancelReject(cancel, "unable to cancel order")}

\* Two cancels reached the venue: the first result lists another digest only,
\* the second lists the digest asked for after another one.
C20_Witness ==
  /\ Len(venue_calls) = 2
  /\ venue_calls[1].kind = "cancellation" /\ venue_calls[2].kind = "cancellation"
  /\ Concrete(venue_calls[1].res)
  /\ ~Cancelled(venue_calls[1].res, venue_calls[1].args.digests[1])
  /\ venue_calls[1].res.v.v.v.cancelled_orders # <<>>
  /\ Cancelled(venue_calls[2].res, venue_calls[2].args.digests[1])
  /\ Len(venue_calls[2].res.v.v.v.cancelled_orders) = 2
  /\ Len(orderflow_tx) = 2
  /\ orderflow_tx[1].t = "CancelReject" /\ orderflow_tx[2].t = "OrderCanceled"

\* C21: every ExecutionInfo of a loaded snapshot carries an exchange symbol,
\* which parses to the id of the product it was built from, and no request
\* makes place_order return an error: main never returns from
\* handle_cpty_request.
BuiltFrom(tp, info) ==
  /\ info.exchange_symbol.some
  /\ LET id == ParseU32(info.exchange_symbol.v)
     IN  /\ id.ok
         /\ \E i \in 1..Len(catalog.products.perp_products) :
              catalog.products.perp_products[i].product_id = id.v
         /\ id.v \in DOMAIN vertex_symbology.tradable_products
         /\ vertex_symbology.tradable_products[id.v] = tp
C21_ExchangeSymbolParsesBack ==
  /\ \A tp \in DOMAIN vertex_symbology.execution_info :
       \A v \in DOMAIN vertex_symbology.execution_info[tp] :
         BuiltFrom(tp, vertex_symbology.execution_info[tp][v])
  /\ exit # "handle_cpty_request"

\* An order on the product with the ten-digit id reached the venue under that
\* id and was acked, next to a product with a three-digit id.
C21_Witness ==
  /\ Len(venue_calls) = 1
  /\ venue_calls[1].args.product_id = 2147483647
  /\ 108 \in DOMAIN vertex_symbology.tradable_products
  /\ Len(orderflow_tx) = 1
  /\ orderflow_tx[1].t = "OrderAck"

\* C22: once a read task has found its inbound stream closed or broken, it
\* does not poll the stream again.
C22_NoPollAfterEnd == \A c \in Conns : read_tasks[c].end_polls <= 1

====
